---- MODULE Spec2Model ----
(***************************************************************************)
(* Model of dbhelpers.py: the record-reconciliation helpers (get_or_create *)
(* and its callers for lists, product links, watches and categories).      *)
(*                                                                         *)
(* The SQLAlchemy session is one variable, `session`: a record with one    *)
(* table (a set of rows) per mapped class, the id counter of the store and *)
(* the store-side clock.  Rows staged with session.add are visible to the  *)
(* queries of the same session, and rows given to session.delete are not.  *)
(* A Python value that may be None is an option: <<>> is None and <<v>> is *)
(* the value v.  Query.first() without ORDER BY returns whichever matching *)
(* row the store yields first, so every helper is a set of outcomes.       *)
(***************************************************************************)
EXTENDS Integers, Sequences, FiniteSets, TLC

VARIABLES
    session,   \* the caller's session: tables, id counter, clock
    last,      \* the last helper call: op, args, ret, raised, events, after
    pre,       \* the session as it was before the last call
    start,     \* the session the caller started from
    callers    \* concurrent callers of get_or_create: where each one stands

vars == <<session, last, pre, start, callers>>

----------------------------------------------------------------------------
(* Bounds *)

\* a caller creates at most MaxId rows
MaxId == 3
\* longest listing_ids argument
MaxIds == 2
\* the store-side clock runs over 0..MaxClock
MaxClock == 1

----------------------------------------------------------------------------
(* Python values *)

None == <<>>

Some(v) == <<v>>

\* bool(x) of a str-or-None value: None and '' are falsy
Truthy(o) == o # None /\ o[1] # ""

ListingIds == {1, 2}

ListNames == {"A", "B"}

\* every listing_ids argument: sequences of listing ids, repeats included
IdSeqs == UNION {[1..n -> ListingIds] : n \in 0..MaxIds}

Intervals == {"1d", "7d"}

CategoryIds == {"c1", "c2", "Unknown"}

ProductGroups == {"Toys", "Books"}

\* a str-or-None argument over the given strings; '' is the falsy string
StrArgs(S) == {None, Some("")} \cup {Some(x) : x \in S}

\* the confidences the scorer may yield
Scores == {0, 1}

\* observation times, in whole seconds since the epoch
Timestamps == {0, 1, 10}

\* sales ranks an observation may report
Salesranks == {1, 4}

----------------------------------------------------------------------------
(* The mapped classes of the database module: column defaults *)

\* the Listing rows: odd ids are AmazonListing rows, even ids vendor rows
Catalogue ==
    {[id |-> i,
      type |-> IF i % 2 = 1 THEN "AmazonListing" ELSE "VendorListing"] :
        i \in ListingIds}

\* isinstance(first, AmazonListing), first being a row or None
IsAmazonListing(first) == first # None /\ first[1].type = "AmazonListing"

\* columns of dtype(**kwargs) that kwargs leaves unset
Defaults(dtype) ==
    CASE dtype = "List" ->
            [name |-> None, is_amazon |-> None]
      [] dtype = "ListMembership" ->
            [list_id |-> 0, listing_id |-> 0]
      [] dtype = "LinkedProducts" ->
            [amz_listing_id |-> 0, vnd_listing_id |-> 0, confidence |-> None]
      [] dtype = "AmazonCategory" ->
            [name |-> None, product_category_id |-> None,
             product_groups |-> {}]

\* dtype(**kwargs), with the id the store will give it
Construct(dtype, id, kwargs) == [id |-> id] @@ kwargs @@ Defaults(dtype)

\* Operation.UpdateAmazonListing(listing_id=..., priority=...)
UpdateAmazonListing(id, listing_id, priority) ==
    [id |-> id, operation |-> "UpdateAmazonListing", listing_id |-> listing_id,
     priority |-> priority, params |-> [x \in {} |-> ""], scheduled |-> 0]

\* the keys and values of params as they stand in param_string; a value is
\* written as its JSON text (True is "true")
ParamTokens(params) == DOMAIN params \cup {params[k] : k \in DOMAIN params}

\* the proper substrings among the strings of the model
ProperSubstring(w, tok) == <<w, tok>> \in {<<"repeat", "norepeat">>}

\* Operation.param_string.contains(word): a LIKE '%word%' on the text column
ParamStringContains(o, word) ==
    \E tok \in ParamTokens(o.params) : tok = word \/ ProperSubstring(word, tok)

\* AmazonCategory.product_groups.contains(product_group)
ProductGroupsContains(c, product_group) == product_group \in c.product_groups

\* link.build_confidence(): the scorer sets a numeric confidence in place
build_confidence(link) == {[link EXCEPT !.confidence = Some(c)] : c \in Scores}

----------------------------------------------------------------------------
(* The session *)

EmptySession ==
    [Listing |-> Catalogue, List |-> {}, ListMembership |-> {},
     LinkedProducts |-> {}, Operation |-> {}, AmazonCategory |-> {},
     AmzProductHistory |-> {}, nextId |-> 1, now |-> 0]

\* filter_by(**kwargs): equality on every given column
Matches(row, kwargs) == \A f \in DOMAIN kwargs : row[f] = kwargs[f]

\* Query.first(): None, or any one of the matching rows
First(rows) == IF rows = {} THEN {None} ELSE {Some(r) : r \in rows}

\* session.add(row) of a new row
Add(s, dtype, row) ==
    [s EXCEPT ![dtype] = @ \cup {row}, !.nextId = @ + 1]

\* session.delete(row)
Delete(s, dtype, row) ==
    [s EXCEPT ![dtype] = {r \in @ : r.id # row.id}]

\* an attribute assignment on a row the session holds
Assign(s, dtype, row) ==
    [s EXCEPT ![dtype] = {IF r.id = row.id THEN row ELSE r : r \in @}]

\* session.flush(): staged rows become durable; what queries see is the same
Flush(s) == s

----------------------------------------------------------------------------
(* The helpers.  Each is the set of its outcomes: the session it leaves,    *)
(* what it returns (an option), the exception it raises ("" for none) and   *)
(* the flush, attach and scorer calls it made, in order ("attach" is the    *)
(* assignment of link.amz_listing and link.vnd_listing: relationships, not  *)
(* columns, so the row is the same).                                        *)

Outcome(s, ret, raised, events) ==
    [s |-> s, ret |-> ret, raised |-> raised, events |-> events]

\* get_or_create without its query: a row is constructed and staged each time
get_or_create_always_add(s, dtype, kwargs) ==
    LET obj == Construct(dtype, s.nextId, kwargs)
    IN  {[s |-> Add(s, dtype, obj), obj |-> obj]}

get_or_create(s, dtype, kwargs) ==
    LET found == First({r \in s[dtype] : Matches(r, kwargs)})
        obj   == Construct(dtype, s.nextId, kwargs)
    IN  UNION {IF f = None
                 THEN {[s |-> Add(s, dtype, obj), obj |-> obj]}
                 ELSE {[s |-> s, obj |-> f[1]]} : f \in found}

\* the loop of add_ids_to_list staging a membership per listing id without
\* looking for the one that exists
RECURSIVE AddMemberships_no_lookup(_, _, _)
AddMemberships_no_lookup(s, listing_ids, add_list) ==
    IF listing_ids = <<>> THEN {s}
    ELSE AddMemberships_no_lookup(
             Add(s, "ListMembership",
                 Construct("ListMembership", s.nextId,
                           [list_id |-> add_list.id,
                            listing_id |-> Head(listing_ids)])),
             Tail(listing_ids), add_list)

\* the loop of add_ids_to_list: a membership per listing id
RECURSIVE AddMemberships(_, _, _)
AddMemberships(s, listing_ids, add_list) ==
    IF listing_ids = <<>> THEN {s}
    ELSE UNION {AddMemberships(g.s, Tail(listing_ids), add_list) :
                  g \in get_or_create(s, "ListMembership",
                                      [list_id |-> add_list.id,
                                       listing_id |-> Head(listing_ids)])}

\* add_ids_to_list setting is_amazon only on a list that has none yet
add_ids_to_list_sticky(s, listing_ids, list_name) ==
    UNION {UNION {
        IF listing_ids = <<>>
          THEN {Outcome(s2, None, "IndexError", <<>>)}
          ELSE {Outcome(IF g.obj.is_amazon = None
                          THEN Assign(s2, "List",
                                 [g.obj EXCEPT
                                    !.is_amazon = Some(IsAmazonListing(first))])
                          ELSE s2,
                        None, "", <<>>) :
                  first \in First({l \in s2.Listing : l.id = listing_ids[1]})} :
        s2 \in AddMemberships(g.s, listing_ids, g.obj)} :
      g \in get_or_create(s, "List", [name |-> Some(list_name)])}

\* add_ids_to_list returning at once on no ids, as remove_ids_from_list does
add_ids_to_list_guarded(s, listing_ids, list_name) ==
    IF listing_ids = <<>>
      THEN {Outcome(s, None, "", <<>>)}
      ELSE UNION {UNION {
               {Outcome(Assign(s2, "List",
                          [g.obj EXCEPT !.is_amazon = Some(IsAmazonListing(first))]),
                        None, "", <<>>) :
                  first \in First({l \in s2.Listing : l.id = listing_ids[1]})} :
               s2 \in AddMemberships(g.s, listing_ids, g.obj)} :
             g \in get_or_create(s, "List", [name |-> Some(list_name)])}

add_ids_to_list(s, listing_ids, list_name) ==
    UNION {UNION {
        IF listing_ids = <<>>
          THEN {Outcome(s2, None, "IndexError", <<>>)}
          ELSE {Outcome(Assign(s2, "List",
                          [g.obj EXCEPT !.is_amazon = Some(IsAmazonListing(first))]),
                        None, "", <<>>) :
                  first \in First({l \in s2.Listing : l.id = listing_ids[1]})} :
        s2 \in AddMemberships(g.s, listing_ids, g.obj)} :
      g \in get_or_create(s, "List", [name |-> Some(list_name)])}

\* the loop of remove_ids_from_list: delete each membership that exists
RECURSIVE RemoveMemberships(_, _, _)
RemoveMemberships(s, listing_ids, rm_list) ==
    IF listing_ids = <<>> THEN {s}
    ELSE UNION {RemoveMemberships(
                    IF membership # None
                      THEN Delete(s, "ListMembership", membership[1])
                      ELSE s,
                    Tail(listing_ids), rm_list) :
                  membership \in First({m \in s.ListMembership :
                                          Matches(m, [list_id |-> rm_list.id,
                                                      listing_id |-> Head(listing_ids)])})}

\* remove_ids_from_list that returns after the first listing id
remove_ids_from_list_first_only(s, listing_ids, list_name) ==
    UNION {IF rm_list = None \/ listing_ids = <<>>
             THEN {Outcome(s, None, "", <<>>)}
             ELSE {Outcome(s2, None, "", <<>>) :
                     s2 \in RemoveMemberships(s, <<Head(listing_ids)>>, rm_list[1])} :
      rm_list \in First({l \in s.List : Matches(l, [name |-> Some(list_name)])})}

remove_ids_from_list(s, listing_ids, list_name) ==
    UNION {IF rm_list = None \/ listing_ids = <<>>
             THEN {Outcome(s, None, "", <<>>)}
             ELSE {Outcome(s2, None, "", <<>>) :
                     s2 \in RemoveMemberships(s, listing_ids, rm_list[1])} :
      rm_list \in First({l \in s.List : Matches(l, [name |-> Some(list_name)])})}

\* link_products_ids testing `not link.confidence`: a confidence of 0 is
\* scored again
link_products_ids_falsy(s, amz_listing_id, vnd_listing_id) ==
    UNION {IF g.obj.confidence = None \/ g.obj.confidence = Some(0)
             THEN {Outcome(Assign(Flush(g.s), "LinkedProducts", link),
                           Some(link), "", <<"flush", "build_confidence">>) :
                     link \in build_confidence(g.obj)}
             ELSE {Outcome(g.s, Some(g.obj), "", <<>>)} :
      g \in get_or_create(s, "LinkedProducts",
                          [amz_listing_id |-> amz_listing_id,
                           vnd_listing_id |-> vnd_listing_id])}

link_products_ids(s, amz_listing_id, vnd_listing_id) ==
    UNION {IF g.obj.confidence = None
             THEN {Outcome(Assign(Flush(g.s), "LinkedProducts", link),
                           Some(link), "", <<"flush", "build_confidence">>) :
                     link \in build_confidence(g.obj)}
             ELSE {Outcome(g.s, Some(g.obj), "", <<>>)} :
      g \in get_or_create(s, "LinkedProducts",
                          [amz_listing_id |-> amz_listing_id,
                           vnd_listing_id |-> vnd_listing_id])}

\* link_products going by the ids, as link_products_ids does: a flush and
\* no attachment of the listings
link_products_flushing(s, amz, vnd) == link_products_ids(s, amz.id, vnd.id)

link_products(s, amz, vnd) ==
    UNION {IF g.obj.confidence = None
             THEN {Outcome(Assign(g.s, "LinkedProducts", link),
                           Some(link), "", <<"attach", "build_confidence">>) :
                     link \in build_confidence(g.obj)}
             ELSE {Outcome(g.s, Some(g.obj), "", <<>>)} :
      g \in get_or_create(s, "LinkedProducts",
                          [amz_listing_id |-> amz.id, vnd_listing_id |-> vnd.id])}

\* unlink_products filtering on the Amazon listing id alone
unlink_products_by_amz(s, amz_listing_id, vnd_listing_id) ==
    {Outcome(IF link # None THEN Delete(s, "LinkedProducts", link[1]) ELSE s,
             None, "", <<>>) :
       link \in First({l \in s.LinkedProducts :
                         Matches(l, [amz_listing_id |-> amz_listing_id])})}

unlink_products(s, amz_listing_id, vnd_listing_id) ==
    {Outcome(IF link # None THEN Delete(s, "LinkedProducts", link[1]) ELSE s,
             None, "", <<>>) :
       link \in First({l \in s.LinkedProducts :
                         Matches(l, [amz_listing_id |-> amz_listing_id,
                                     vnd_listing_id |-> vnd_listing_id])})}

\* the query of get_watch: the rows it may return
Watches(s, listing_id) ==
    {o \in s.Operation : /\ o.listing_id = listing_id
                         /\ o.operation = "UpdateAmazonListing"
                         /\ ParamStringContains(o, "repeat")}

get_watch(s, listing_id) ==
    {Outcome(s, watch, "", <<>>) : watch \in First(Watches(s, listing_id))}

\* set_watch that never reuses the watch it found: a new Operation each time
set_watch_always_new(s, listing_id, time) ==
    UNION {
        IF time = None
          THEN {Outcome(IF w.ret # None THEN Delete(s, "Operation", w.ret[1]) ELSE s,
                        None, "", <<>>)}
          ELSE {Outcome(Add(s, "Operation",
                            [UpdateAmazonListing(s.nextId, listing_id, 5) EXCEPT
                               !.params = [log |-> "true", repeat |-> time[1]],
                               !.scheduled = s.now]),
                        None, "", <<>>)} :
      w \in get_watch(s, listing_id)}

\* set_watch that re-arms the params but leaves scheduled as it finds it
set_watch_keep_schedule(s, listing_id, time) ==
    UNION {
        IF time = None
          THEN {Outcome(IF w.ret # None THEN Delete(s, "Operation", w.ret[1]) ELSE s,
                        None, "", <<>>)}
          ELSE LET fresh == w.ret = None
                   watch == IF fresh
                              THEN UpdateAmazonListing(s.nextId, listing_id, 5)
                              ELSE w.ret[1]
                   armed == [watch EXCEPT
                               !.params = [log |-> "true", repeat |-> time[1]]]
               IN  {Outcome(IF fresh THEN Add(s, "Operation", armed)
                                     ELSE Assign(s, "Operation", armed),
                            None, "", <<>>)} :
      w \in get_watch(s, listing_id)}

set_watch(s, listing_id, time) ==
    UNION {
        IF time = None
          THEN {Outcome(IF w.ret # None THEN Delete(s, "Operation", w.ret[1]) ELSE s,
                        None, "", <<>>)}
          ELSE LET fresh == w.ret = None
                   watch == IF fresh
                              THEN UpdateAmazonListing(s.nextId, listing_id, 5)
                              ELSE w.ret[1]
                   armed == [watch EXCEPT
                               !.params = [log |-> "true", repeat |-> time[1]],
                               !.scheduled = s.now]
               IN  {Outcome(IF fresh THEN Add(s, "Operation", armed)
                                     ELSE Assign(s, "Operation", armed),
                            None, "", <<>>)} :
      w \in get_watch(s, listing_id)}

\* the name overwritten with the id whether or not one was set
DefaultName_overwrite(category, productcategory_id) ==
    [category EXCEPT !.name = productcategory_id]

\* category.name = category.name or productcategory_id
DefaultName(category, productcategory_id) ==
    [category EXCEPT !.name = IF Truthy(category.name)
                                THEN category.name
                                ELSE productcategory_id]

\* get_or_create_category returning what the first two tiers found, with no
\* fallback to 'Unknown'
get_or_create_category_no_fallback(s, productcategory_id, product_group) ==
    IF Truthy(productcategory_id)
      THEN {Outcome(Assign(g.s, "AmazonCategory",
                           DefaultName(g.obj, productcategory_id)),
                    Some(DefaultName(g.obj, productcategory_id)), "", <<>>) :
              g \in get_or_create(s, "AmazonCategory",
                                  [product_category_id |-> productcategory_id])}
      ELSE IF Truthy(product_group)
        THEN {Outcome(s, c, "", <<>>) :
                c \in First({k \in s.AmazonCategory :
                               ProductGroupsContains(k, product_group[1])})}
        ELSE {Outcome(s, None, "", <<>>)}

get_or_create_category(s, productcategory_id, product_group) ==
    LET tier12 ==
          IF Truthy(productcategory_id)
            THEN {[s |-> Assign(g.s, "AmazonCategory",
                                DefaultName(g.obj, productcategory_id)),
                   category |-> Some(DefaultName(g.obj, productcategory_id))] :
                    g \in get_or_create(s, "AmazonCategory",
                                        [product_category_id |-> productcategory_id])}
            ELSE IF Truthy(product_group)
              THEN {[s |-> s, category |-> c] :
                      c \in First({k \in s.AmazonCategory :
                                     ProductGroupsContains(k, product_group[1])})}
              ELSE {[s |-> s, category |-> None]}
    IN  UNION {IF t.category # None
                 THEN {Outcome(t.s, t.category, "", <<>>)}
                 ELSE {Outcome(g.s, Some(g.obj), "", <<>>) :
                         g \in get_or_create(t.s, "AmazonCategory",
                                             [name |-> Some("Unknown")])} :
      t \in tier12}

----------------------------------------------------------------------------
(* ProductHistoryStats.  A slope is kept as the pair <<rise, run>> of the  *)
(* division the code makes; timestamps are whole seconds and ranks are     *)
(* integers, so the float quotient compares with -0.3 as the fraction      *)
(* compares with -3/10.                                                    *)

\* _sale_slope = -0.3, as the fraction -3/10
sale_slope == <<-3, 10>>

\* the division of the slope, not yet made: rise over run
slope(point, last_point) ==
    <<point.salesrank - last_point.salesrank,
      point.timestamp - last_point.timestamp>>

Sign(x) == IF x < 0 THEN -1 ELSE 1

\* a <= b where the code has a < b
Less_or_equal(a, b) ==
    a[1] * b[2] * Sign(a[2] * b[2]) <= b[1] * a[2] * Sign(a[2] * b[2])

\* a < b of two quotients whose divisors are not zero
Less(a, b) ==
    a[1] * b[2] * Sign(a[2] * b[2]) < b[1] * a[2] * Sign(a[2] * b[2])

\* the observations of a listing
HistoryOf(s, listing_id) ==
    {h \in s.AmzProductHistory : h.amz_listing_id = listing_id}

\* order_by(timestamp.asc()): every order the store may yield the rows in;
\* rows of one timestamp come in any order
RECURSIVE OrderByTimestamp(_)
OrderByTimestamp(rows) ==
    IF rows = {} THEN {<<>>}
    ELSE UNION {{<<r>> \o q : q \in OrderByTimestamp(rows \ {r})} :
                  r \in {x \in rows : \A y \in rows : x.timestamp <= y.timestamp}}

\* query(AmzProductHistory.timestamp, AmzProductHistory.salesrank): the two
\* columns of each row
Columns(q) ==
    [i \in DOMAIN q |-> [timestamp |-> q[i].timestamp,
                         salesrank |-> q[i].salesrank]]

\* the loop of sales_points with the division guarded as is_sale guards it:
\* a pair of one timestamp is skipped
RECURSIVE Sweep_recovering(_, _, _)
Sweep_recovering(points, last_point, sales) ==
    IF points = <<>> THEN [ret |-> Some(sales), raised |-> ""]
    ELSE LET point == Head(points)
         IN  Sweep_recovering(
                 Tail(points), Some(point),
                 IF /\ last_point # None
                    /\ point.timestamp # last_point[1].timestamp
                    /\ Less(slope(point, last_point[1]), sale_slope)
                   THEN Append(sales, point)
                   ELSE sales)

\* the loop of sales_points that never moves last_point off the first point
RECURSIVE Sweep_from_first(_, _, _)
Sweep_from_first(points, last_point, sales) ==
    IF points = <<>> THEN [ret |-> Some(sales), raised |-> ""]
    ELSE LET point == Head(points)
         IN  IF last_point # None /\ point.timestamp = last_point[1].timestamp
               THEN [ret |-> None, raised |-> "ZeroDivisionError"]
               ELSE Sweep_from_first(
                        Tail(points),
                        IF last_point = None THEN Some(point) ELSE last_point,
                        IF /\ last_point # None
                           /\ Less(slope(point, last_point[1]), sale_slope)
                          THEN Append(sales, point)
                          ELSE sales)

\* the loop of sales_points: the division raises on a run of zero seconds
RECURSIVE Sweep(_, _, _)
Sweep(points, last_point, sales) ==
    IF points = <<>> THEN [ret |-> Some(sales), raised |-> ""]
    ELSE LET point == Head(points)
         IN  IF last_point # None /\ point.timestamp = last_point[1].timestamp
               THEN [ret |-> None, raised |-> "ZeroDivisionError"]
               ELSE Sweep(Tail(points), Some(point),
                          IF /\ last_point # None
                             /\ Less(slope(point, last_point[1]), sale_slope)
                            THEN Append(sales, point)
                            ELSE sales)

sales_points(s, listing_id) ==
    {Outcome(s, sw.ret, sw.raised, <<>>) :
       sw \in {Sweep(Columns(q), None, <<>>) :
                 q \in OrderByTimestamp(HistoryOf(s, listing_id))}}

\* the rows order_by(timestamp.desc()).first() may return
Latest(rows) == {h \in rows : \A k \in rows : k.timestamp <= h.timestamp}

\* is_sale taking as prior the latest observation before obs in time
is_sale_by_timestamp(s, obs) ==
    {IF prior = None
       THEN Outcome(s, Some(FALSE), "", <<>>)
       ELSE IF obs.timestamp = prior[1].timestamp
         THEN Outcome(s, Some(FALSE), "", <<"print">>)
         ELSE Outcome(s, Some(Less(slope(obs, prior[1]), sale_slope)), "", <<>>) :
       prior \in First(Latest({h \in HistoryOf(s, obs.amz_listing_id) :
                                 h.timestamp < obs.timestamp}))}

\* is_sale without its try: the division by zero reaches the caller
is_sale_uncaught(s, obs) ==
    {IF prior = None
       THEN Outcome(s, Some(FALSE), "", <<>>)
       ELSE IF obs.timestamp = prior[1].timestamp
         THEN Outcome(s, None, "ZeroDivisionError", <<>>)
         ELSE Outcome(s, Some(Less(slope(obs, prior[1]), sale_slope)), "", <<>>) :
       prior \in First(Latest({h \in HistoryOf(s, obs.amz_listing_id) :
                                 h.id < obs.id}))}

\* "print" is the diagnostic of the except branch
is_sale(s, obs) ==
    {IF prior = None
       THEN Outcome(s, Some(FALSE), "", <<>>)
       ELSE IF obs.timestamp = prior[1].timestamp
         THEN Outcome(s, Some(FALSE), "", <<"print">>)
         ELSE Outcome(s, Some(Less(slope(obs, prior[1]), sale_slope)), "", <<>>) :
       prior \in First(Latest({h \in HistoryOf(s, obs.amz_listing_id) :
                                 h.id < obs.id}))}

\* the ingestion process appends an observation
ingest(s, listing_id, timestamp, salesrank) ==
    {Outcome(Add(s, "AmzProductHistory",
                 [id |-> s.nextId, amz_listing_id |-> listing_id,
                  timestamp |-> timestamp, salesrank |-> salesrank]),
             None, "", <<>>)}

----------------------------------------------------------------------------
(* Calls.  One action per helper: the caller picks the arguments and the   *)
(* helper runs to its end.  A caller that observes (obs) keeps the call in *)
(* `last` and the session it acted on in `pre`.                            *)

NoCall == [op |-> "none", args |-> <<>>, ret |-> None, raised |-> "",
           events |-> <<>>, after |-> "none"]

\* no concurrent caller: the session has one caller
NoCallers == <<>>

\* what a call is about: the list, the pair of listings, the listing
Subject(op, args) ==
    CASE op \in {"add_ids_to_list", "remove_ids_from_list"} -> <<"list", args>>
      [] op \in {"link_products_ids", "link_products", "unlink_products"} ->
            <<"link", args>>
      [] op \in {"get_watch", "set_watch"} -> <<"watch", <<args[1]>>>>
      [] op = "get_or_create_category" -> <<"category", args>>
      [] op = "get_or_create" -> <<"row", args>>
      [] op \in {"ingest", "sales_points", "is_sale"} -> <<op, args>>
      [] OTHER -> <<"none", <<>>>>

\* the call before, when it was about the same subject
After(op, args) ==
    LET a == Subject(last.op, last.args)
        b == Subject(op, args)
    IN  IF a[1] = b[1] /\ a[2] = b[2] THEN last.op ELSE "none"

Call(obs, op, args, outcomes) ==
    \E o \in outcomes :
        /\ o.s.nextId <= start.nextId + MaxId
        /\ session' = o.s
        /\ IF obs
             THEN /\ last' = [op |-> op, args |-> args, ret |-> o.ret,
                              raised |-> o.raised, events |-> o.events,
                              after |-> After(op, args)]
                  /\ pre' = session
             ELSE UNCHANGED <<last, pre>>
        /\ UNCHANGED <<start, callers>>

UpsertArgs ==
    {<<"List", [name |-> Some(n)]>> : n \in ListNames}
    \cup {<<"LinkedProducts", [amz_listing_id |-> a]>> : a \in ListingIds}
    \cup {<<"LinkedProducts", [amz_listing_id |-> a, vnd_listing_id |-> v]>> :
            a \in ListingIds, v \in ListingIds}

GetOrCreate(obs) ==
    \E a \in UpsertArgs :
        Call(obs, "get_or_create", a,
             {Outcome(g.s, Some(g.obj), "", <<>>) :
                g \in get_or_create(session, a[1], a[2])})

AddIdsToList(obs) ==
    \E listing_ids \in IdSeqs, list_name \in ListNames :
        Call(obs, "add_ids_to_list", <<listing_ids, list_name>>,
             add_ids_to_list(session, listing_ids, list_name))

RemoveIdsFromList(obs) ==
    \E listing_ids \in IdSeqs, list_name \in ListNames :
        Call(obs, "remove_ids_from_list", <<listing_ids, list_name>>,
             remove_ids_from_list(session, listing_ids, list_name))

LinkProductsIds(obs) ==
    \E amz_listing_id \in ListingIds, vnd_listing_id \in ListingIds :
        Call(obs, "link_products_ids", <<amz_listing_id, vnd_listing_id>>,
             link_products_ids(session, amz_listing_id, vnd_listing_id))

LinkProducts(obs) ==
    \E amz \in session.Listing, vnd \in session.Listing :
        Call(obs, "link_products", <<amz.id, vnd.id>>,
             link_products(session, amz, vnd))

UnlinkProducts(obs) ==
    \E amz_listing_id \in ListingIds, vnd_listing_id \in ListingIds :
        Call(obs, "unlink_products", <<amz_listing_id, vnd_listing_id>>,
             unlink_products(session, amz_listing_id, vnd_listing_id))

GetWatch(obs) ==
    \E listing_id \in ListingIds :
        Call(obs, "get_watch", <<listing_id>>, get_watch(session, listing_id))

SetWatch(obs) ==
    \E listing_id \in ListingIds, time \in {None} \cup {Some(t) : t \in Intervals} :
        Call(obs, "set_watch", <<listing_id, time>>,
             set_watch(session, listing_id, time))

GetOrCreateCategory(obs) ==
    \E productcategory_id \in StrArgs(CategoryIds),
       product_group \in StrArgs(ProductGroups) :
        Call(obs, "get_or_create_category", <<productcategory_id, product_group>>,
             get_or_create_category(session, productcategory_id, product_group))

Ingest(obs) ==
    \E listing_id \in ListingIds, timestamp \in Timestamps,
       salesrank \in Salesranks :
        Call(obs, "ingest", <<listing_id, timestamp, salesrank>>,
             ingest(session, listing_id, timestamp, salesrank))

SalesPoints(obs) ==
    \E listing_id \in ListingIds :
        Call(obs, "sales_points", <<listing_id>>,
             sales_points(session, listing_id))

IsSale(obs) ==
    \E observation \in session.AmzProductHistory :
        Call(obs, "is_sale", <<observation>>, is_sale(session, observation))

\* the store-side clock behind func.now() moves on between calls
Tick ==
    /\ session.now < MaxClock
    /\ session' = [session EXCEPT !.now = @ + 1]
    /\ UNCHANGED <<last, pre, start, callers>>

----------------------------------------------------------------------------
(* Concurrent callers of get_or_create.  Each caller has a session of its  *)
(* own on the one store: `session` is what the store holds, and a row a    *)
(* caller staged is in its own session alone until that session flushes.   *)
(* The store may or may not have a uniqueness constraint on the columns    *)
(* of the constraints; a flush it rejects raises IntegrityError.           *)

Callers == {"c1", "c2"}

\* the constraints the callers race on: a List by its name
RaceArgs == {<<"List", [name |-> Some(n)]>> : n \in ListNames}

IdleCaller == [pc |-> "idle", args |-> <<>>, seen |-> None, staged |-> None,
               ret |-> None, raised |-> ""]

\* callers that have read and not yet flushed
InFlight == {c \in Callers : callers.of[c].pc \in {"queried", "staged"}}

\* line 7: the caller reads the first match the store holds
RaceQuery(c) ==
    /\ callers.of[c].pc = "idle"
    /\ session.nextId + Cardinality(InFlight) < start.nextId + MaxId
    /\ \E a \in RaceArgs :
         \E obj \in First({r \in session[a[1]] : Matches(r, a[2])}) :
           callers' = [callers EXCEPT !.of[c] =
                         [IdleCaller EXCEPT !.pc = "queried", !.args = a,
                                            !.seen = obj]]
    /\ UNCHANGED <<session, last, pre, start>>

\* lines 8-10 looking at the store once more before staging: a row that
\* matched in the meantime is returned instead
RaceStage_recheck(c) ==
    /\ callers.of[c].pc = "queried"
    /\ LET a == callers.of[c].args
       IN  \E obj \in First({r \in session[a[1]] : Matches(r, a[2])}) :
             callers' = [callers EXCEPT !.of[c] =
                           IF obj = None
                             THEN [@ EXCEPT !.pc = "staged", !.staged = Some(a[2])]
                             ELSE [@ EXCEPT !.pc = "idle", !.ret = obj]]
    /\ UNCHANGED <<session, last, pre, start>>

\* lines 8-12: on no match the caller stages dtype(**kwargs) in its session;
\* on a match it returns the row it read
RaceStage(c) ==
    /\ callers.of[c].pc = "queried"
    /\ LET a   == callers.of[c].args
           obj == callers.of[c].seen
       IN  callers' = [callers EXCEPT !.of[c] =
                         IF obj = None
                           THEN [@ EXCEPT !.pc = "staged", !.staged = Some(a[2])]
                           ELSE [@ EXCEPT !.pc = "idle", !.ret = obj]]
    /\ UNCHANGED <<session, last, pre, start>>

\* the caller's session flushes its staged row: the store takes it and
\* gives it an id, or rejects it under its uniqueness constraint, which
\* ends the caller
RaceFlush(c) ==
    /\ callers.of[c].pc = "staged"
    /\ LET a   == callers.of[c].args
           row == Construct(a[1], session.nextId, callers.of[c].staged[1])
       IN  IF callers.unique /\ \E r \in session[a[1]] : Matches(r, a[2])
             THEN /\ callers' = [callers EXCEPT !.of[c] =
                                   [@ EXCEPT !.pc = "failed",
                                             !.raised = "IntegrityError"]]
                  /\ UNCHANGED session
             ELSE /\ callers' = [callers EXCEPT !.of[c] =
                                   [@ EXCEPT !.pc = "idle", !.staged = None,
                                             !.ret = Some(row)]]
                  /\ session' = Add(session, a[1], row)
    /\ UNCHANGED <<last, pre, start>>

----------------------------------------------------------------------------
(* Specifications *)

StartFrom(s) ==
    /\ session = s
    /\ start = s
    /\ pre = s
    /\ last = NoCall
    /\ callers = NoCallers

\* a single caller of the list, link and watch helpers on an empty store
Init == StartFrom(EmptySession)

Next ==
    \/ AddIdsToList(FALSE)
    \/ RemoveIdsFromList(FALSE)
    \/ LinkProductsIds(FALSE)
    \/ LinkProducts(FALSE)
    \/ UnlinkProducts(FALSE)
    \/ GetWatch(FALSE)
    \/ SetWatch(FALSE)

Spec == Init /\ [][Next]_vars

\* Operation rows other code of the program left in the store: a watch
\* with its own priority and params, an update that does not repeat, and
\* an operation of another kind that does
SeedOperations ==
    {[id |-> 1, operation |-> "UpdateAmazonListing", listing_id |-> 1,
      priority |-> 1, params |-> [log |-> "false", repeat |-> "1d"],
      scheduled |-> 0],
     [id |-> 2, operation |-> "UpdateAmazonListing", listing_id |-> 1,
      priority |-> 3, params |-> [log |-> "true"], scheduled |-> 0],
     [id |-> 3, operation |-> "SomeOtherOperation", listing_id |-> 2,
      priority |-> 2, params |-> [repeat |-> "7d"], scheduled |-> 0]}

\* an observing caller of the watch helpers on a store with operations
InitWatch ==
    \E ops \in SUBSET SeedOperations :
        StartFrom([EmptySession EXCEPT !.Operation = ops, !.nextId = 4])

NextWatch == GetWatch(TRUE) \/ SetWatch(TRUE) \/ Tick

SpecWatch == InitWatch /\ [][NextWatch]_vars

\* Operation rows other code of the program left in the store whose params
\* have no key repeat but whose text holds the word: in a key, in a value;
\* and an operation of another kind that does repeat
SeedLookalikes ==
    {[id |-> 1, operation |-> "UpdateAmazonListing", listing_id |-> 1,
      priority |-> 2, params |-> [norepeat |-> "true"], scheduled |-> 0],
     [id |-> 2, operation |-> "UpdateAmazonListing", listing_id |-> 2,
      priority |-> 2, params |-> [log |-> "true", note |-> "repeat"],
      scheduled |-> 0],
     [id |-> 3, operation |-> "SomeOtherOperation", listing_id |-> 1,
      priority |-> 2, params |-> [repeat |-> "7d"], scheduled |-> 0]}

\* an observing caller of the watch helpers on a store with such operations
InitLookup ==
    \E ops \in SUBSET SeedLookalikes :
        StartFrom([EmptySession EXCEPT !.Operation = ops, !.nextId = 4])

NextLookup == GetWatch(TRUE) \/ SetWatch(TRUE)

SpecLookup == InitLookup /\ [][NextLookup]_vars

\* AmazonCategory rows already in the store: one not yet named, one named
\* and one that is the fallback
SeedCategories ==
    {[id |-> 1, name |-> None, product_category_id |-> Some("c1"),
      product_groups |-> {"Toys"}],
     [id |-> 2, name |-> Some("Games"), product_category_id |-> Some("c2"),
      product_groups |-> {"Toys", "Books"}],
     [id |-> 3, name |-> Some("Unknown"), product_category_id |-> None,
      product_groups |-> {}]}

\* an observing caller of get_or_create_category
InitCategory ==
    \E cats \in SUBSET SeedCategories :
        StartFrom([EmptySession EXCEPT !.AmazonCategory = cats, !.nextId = 4])

NextCategory == GetOrCreateCategory(TRUE)

SpecCategory == InitCategory /\ [][NextCategory]_vars

\* an observing caller of the list helpers
NextLists == AddIdsToList(TRUE) \/ RemoveIdsFromList(TRUE)

SpecLists == Init /\ [][NextLists]_vars

\* an observing caller of the list helpers on a store that holds some, all
\* or none of the listings the ids name
InitListings ==
    \E rows \in SUBSET Catalogue :
        StartFrom([EmptySession EXCEPT !.Listing = rows])

SpecListings == InitListings /\ [][NextLists]_vars

\* an observing caller of the link helpers
NextLinks == LinkProductsIds(TRUE) \/ LinkProducts(TRUE) \/ UnlinkProducts(TRUE)

SpecLinks == Init /\ [][NextLinks]_vars

\* LinkedProducts rows other code of the program left in the store: one
\* never scored and one scored
SeedLinks ==
    {[id |-> 1, amz_listing_id |-> 1, vnd_listing_id |-> 2, confidence |-> None],
     [id |-> 2, amz_listing_id |-> 1, vnd_listing_id |-> 1,
      confidence |-> Some(0)]}

\* an observing caller of the link helpers on a store with such links
InitScoring ==
    StartFrom([EmptySession EXCEPT !.LinkedProducts = SeedLinks, !.nextId = 3])

SpecScoring == InitScoring /\ [][NextLinks]_vars

\* an observing caller of get_or_create itself
NextUpsert == GetOrCreate(TRUE)

SpecUpsert == Init /\ [][NextUpsert]_vars

\* two callers of get_or_create on one store, with or without a uniqueness
\* constraint on List.name
InitRace ==
    \E unique \in BOOLEAN :
        /\ session = EmptySession
        /\ start = EmptySession
        /\ pre = EmptySession
        /\ last = NoCall
        /\ callers = [unique |-> unique, of |-> [c \in Callers |-> IdleCaller]]

NextRace == \E c \in Callers : RaceQuery(c) \/ RaceStage(c) \/ RaceFlush(c)

SpecRace == InitRace /\ [][NextRace]_vars

\* an observing reader of a history that the ingestion process appends to
NextHistory == Ingest(TRUE) \/ SalesPoints(TRUE) \/ IsSale(TRUE)

SpecHistory == Init /\ [][NextHistory]_vars

----------------------------------------------------------------------------
(* Properties *)

\* the rows of dtype that filter_by(**kwargs) selects
Matching(s, dtype, kwargs) == {r \in s[dtype] : Matches(r, kwargs)}

LinkOps == {"link_products_ids", "link_products"}

\* the links of a pair of listing ids
LinksOf(s, pair) ==
    Matching(s, "LinkedProducts",
             [amz_listing_id |-> pair[1], vnd_listing_id |-> pair[2]])

\* the watches of a listing as the data model defines them: the kind is
\* UpdateAmazonListing and params has the key repeat
KeyedWatches(s, listing_id) ==
    {o \in s.Operation : /\ o.listing_id = listing_id
                         /\ o.operation = "UpdateAmazonListing"
                         /\ "repeat" \in DOMAIN o.params}

\* C1 as claimed: two get_or_create calls in a row with the same constraints
\* return the same record, and afterwards exactly one record matches the
\* constraints.
C1_AsClaimed ==
    [][(/\ last.op = "get_or_create"
        /\ last'.op = "get_or_create"
        /\ last'.args = last.args)
       => /\ last'.ret = last.ret
          /\ Cardinality(Matching(session', last'.args[1], last'.args[2])) = 1]_vars

\* C1, amended: every get_or_create call returns a record of the store that
\* matches the constraints; it stages exactly one new record when none
\* matched and changes nothing when one did.  Of two calls in a row with the
\* same constraints the second changes nothing, and when at most one record
\* matched before the first call, both return the same record and exactly
\* one record matches afterwards.
C1_Upsert ==
    [][last'.op = "get_or_create" =>
         LET dtype  == last'.args[1]
             kwargs == last'.args[2]
             before == Matching(session, dtype, kwargs)
             obj    == last'.ret[1]
         IN  /\ last'.raised = ""
             /\ Matches(obj, kwargs)
             /\ obj \in session'[dtype]
             /\ IF before = {}
                  THEN /\ obj \notin session[dtype]
                       /\ session'[dtype] = session[dtype] \cup {obj}
                  ELSE /\ obj \in before
                       /\ session' = session
             /\ (last.op = "get_or_create" /\ last.args = last'.args) =>
                  /\ session' = session
                  /\ Cardinality(Matching(pre, dtype, kwargs)) <= 1 =>
                       /\ last'.ret = last.ret
                       /\ Cardinality(Matching(session', dtype, kwargs)) = 1]_vars

\* C1's case: a second call with the same constraints has returned, and the
\* record it returned is the only one that matches
C1_Witness ==
    /\ last.op = "get_or_create"
    /\ last.after = "get_or_create"
    /\ Matching(session, last.args[1], last.args[2]) = {last.ret[1]}
    /\ Cardinality(session.LinkedProducts) >= 2

\* C2: a link call for a pair that has no link invokes the scorer once and
\* returns the link with the confidence it set; a link call for a pair whose
\* link has a confidence returns that very link, leaves the store as it
\* was and does not invoke the scorer.  A link the link helpers left in the
\* store always has a confidence, so only the first call of a run of link
\* calls for a pair scores.
C2_ConfidenceOnce ==
    last.op \in LinkOps =>
        LET before == LinksOf(pre, last.args)
            scored == {i \in DOMAIN last.events : last.events[i] = "build_confidence"}
        IN  /\ \A l \in session.LinkedProducts : l.confidence # None
            /\ LinksOf(session, last.args) = {last.ret[1]}
            /\ IF before = {}
                 THEN Cardinality(scored) = 1
                 ELSE /\ last.ret[1] \in before
                      /\ session = pre
                      /\ scored = {}

\* C2's case: link_products follows link_products_ids for the same pair and
\* returns the link with the confidence set before, without scoring
C2_Witness ==
    /\ last.op = "link_products"
    /\ last.after = "link_products_ids"
    /\ last.events = <<>>
    /\ last.ret[1] \in LinksOf(pre, last.args)
    /\ last.ret[1].confidence = Some(0)

\* C3: from a store with no operations, whatever set_watch and get_watch
\* calls were made, every listing has at most one UpdateAmazonListing
\* operation whose params have the key repeat.
C3_OneWatchPerListing ==
    start.Operation = {} =>
        \A l \in ListingIds : Cardinality(KeyedWatches(session, l)) <= 1

\* C3's case: set_watch armed a listing that already had a watch, and the
\* listing has one watch
C3_Witness ==
    /\ start.Operation = {}
    /\ last.op = "set_watch"
    /\ last.args[2] # None
    /\ Cardinality(KeyedWatches(pre, last.args[1])) = 1
    /\ Cardinality(KeyedWatches(session, last.args[1])) = 1

\* C4, the re-arm: after set_watch(listing, interval) with an interval
\* the listing has one watch, with params exactly {log: true, repeat:
\* interval} and scheduled at the store's now; it is the Operation that was
\* the watch before, with the priority it had, or a new Operation of
\* priority 5 when there was none; nothing else in the store changes.
C4_Rearmed ==
    (last.op = "set_watch" /\ last.args[2] # None) =>
        LET l      == last.args[1]
            before == KeyedWatches(pre, l)
        IN  /\ last.raised = ""
            /\ \E w \in session.Operation :
                 /\ KeyedWatches(session, l) = {w}
                 /\ w.params = [log |-> "true", repeat |-> last.args[2][1]]
                 /\ w.scheduled = pre.now
                 /\ IF before = {}
                      THEN /\ \A o \in pre.Operation : o.id # w.id
                           /\ w.priority = 5
                           /\ session.Operation = pre.Operation \cup {w}
                      ELSE \E b \in before :
                             /\ w.id = b.id
                             /\ w.priority = b.priority
                             /\ session.Operation =
                                  (pre.Operation \ {b}) \cup {w}

\* C4, the removal: set_watch(listing, None) after set_watch(listing,
\* interval) deletes that watch and nothing else, and get_watch then returns
\* none.
C4_Removed ==
    (/\ last.op = "set_watch"
     /\ last.args[2] # None
     /\ last'.op = "set_watch"
     /\ last'.args = <<last.args[1], None>>)
    => /\ session'.Operation =
            session.Operation \ KeyedWatches(session, last.args[1])
       /\ KeyedWatches(session', last.args[1]) = {}
       /\ \A o \in get_watch(session', last.args[1]) : o.ret = None

\* C4: the watch re-arm, both parts, at every call.
C4_Rearm == [][C4_Rearmed' /\ C4_Removed]_vars

\* C4's case: set_watch re-armed a watch that had priority 1, other params
\* and an earlier schedule, and the same Operation still has priority 1
C4_Witness ==
    /\ last.op = "set_watch"
    /\ last.args[2] # None
    /\ \E b \in KeyedWatches(pre, last.args[1]) :
         /\ b.priority = 1
         /\ b.params.log = "false"
         /\ b.scheduled < pre.now
         /\ \E w \in KeyedWatches(session, last.args[1]) :
              /\ w.id = b.id
              /\ w.priority = 1
              /\ w.scheduled = pre.now

\* the categories named 'Unknown'
Unknowns(s) == {c \in s.AmazonCategory : c.name = Some("Unknown")}

\* C5: get_or_create_category returns a category of the store, never None;
\* with no category id and either no product group or no category that has
\* the product group in its product_groups, it returns a category named
\* 'Unknown': an existing one, or a new one when there was none.
C5_CategoryTotal ==
    last.op = "get_or_create_category" =>
        LET cid == last.args[1]
            grp == last.args[2]
        IN  /\ last.raised = ""
            /\ last.ret # None
            /\ last.ret[1] \in session.AmazonCategory
            /\ (/\ ~Truthy(cid)
                /\ \/ ~Truthy(grp)
                   \/ \A c \in pre.AmazonCategory : grp[1] \notin c.product_groups)
               => /\ last.ret[1].name = Some("Unknown")
                  /\ IF Unknowns(pre) = {}
                       THEN /\ \A c \in pre.AmazonCategory : c.id # last.ret[1].id
                            /\ session.AmazonCategory =
                                 pre.AmazonCategory \cup {last.ret[1]}
                       ELSE /\ last.ret[1] \in Unknowns(pre)
                            /\ session = pre

\* C5's case: a product group that no category of a non-empty store has,
\* no 'Unknown' category yet, and the call returned a new 'Unknown'
C5_Witness ==
    /\ last.op = "get_or_create_category"
    /\ last.args[1] = None
    /\ Truthy(last.args[2])
    /\ pre.AmazonCategory # {}
    /\ \A c \in pre.AmazonCategory : last.args[2][1] \notin c.product_groups
    /\ Unknowns(pre) = {}
    /\ Unknowns(session) = {last.ret[1]}

\* C6: from a store with no categories, whatever get_or_create_category
\* calls were made, at most one AmazonCategory has the name 'Unknown'.
C6_UnknownSingleton ==
    start.AmazonCategory = {} => Cardinality(Unknowns(session)) <= 1

\* C7, tier 1: with a category id, the call returns the category of that
\* product_category_id, a new one when there was none; its name is the one
\* it had, or the raw id when it had none; nothing else changes, and the
\* outcome is the same whatever product_group is.
C7_Keyed ==
    (last.op = "get_or_create_category" /\ Truthy(last.args[1])) =>
        LET cid    == last.args[1]
            ret    == last.ret[1]
            before == {c \in pre.AmazonCategory : c.product_category_id = cid}
        IN  /\ last.ret # None
            /\ ret.product_category_id = cid
            /\ ret \in session.AmazonCategory
            /\ IF before = {}
                 THEN /\ \A c \in pre.AmazonCategory : c.id # ret.id
                      /\ ret.name = cid
                      /\ session.AmazonCategory = pre.AmazonCategory \cup {ret}
                 ELSE \E c \in before :
                        /\ ret = [c EXCEPT !.name = IF c.name \in {None, Some("")}
                                                      THEN cid ELSE c.name]
                        /\ session.AmazonCategory =
                             (pre.AmazonCategory \ {c}) \cup {ret}
            /\ \A g \in StrArgs(ProductGroups) :
                 get_or_create_category(pre, cid, g)
                   = get_or_create_category(pre, cid, last.args[2])

\* C7, the repeat: a second call with the same category id returns the same
\* record and changes nothing, its name included.
C7_Repeated ==
    (/\ last.op = "get_or_create_category"
     /\ last'.op = "get_or_create_category"
     /\ Truthy(last'.args[1])
     /\ last'.args[1] = last.args[1])
    => /\ last'.ret = last.ret
       /\ session' = session

\* C7: category tier 1, both parts, at every call.
C7_TierOne == [][C7_Keyed' /\ C7_Repeated]_vars

\* C7's case: the category of the id was in the store without a name, a
\* first call named it after the id and a second call returned it as it was
C7_Witness ==
    /\ last.op = "get_or_create_category"
    /\ last.after = "get_or_create_category"
    /\ Truthy(last.args[1])
    /\ \E c \in start.AmazonCategory :
         /\ c.product_category_id = last.args[1]
         /\ c.name = None
         /\ last.ret[1] = [c EXCEPT !.name = last.args[1]]
    /\ session = pre

\* the list named name, and the memberships of a list
ListsNamed(s, name) == {l \in s.List : l.name = Some(name)}

MembersOf(s, name) ==
    {m \in s.ListMembership : \E l \in ListsNamed(s, name) : m.list_id = l.id}

\* the listing ids of a listing_ids argument
Range(seq) == {seq[i] : i \in DOMAIN seq}

\* C8: remove_ids_from_list(ids, L) right after add_ids_to_list(ids, L), ids
\* not empty, leaves no membership of L for an id of ids; when L had no
\* membership before the add (or did not exist), L is left with no
\* membership at all, and the List record stays.
C8_RoundTrip ==
    [][(/\ last.op = "add_ids_to_list"
        /\ last.args[1] # <<>>
        /\ last'.op = "remove_ids_from_list"
        /\ last'.args = last.args)
       => LET ids  == last.args[1]
              name == last.args[2]
          IN  /\ last'.raised = ""
              /\ \A m \in MembersOf(session', name) : m.listing_id \notin Range(ids)
              /\ ListsNamed(session', name) = ListsNamed(session, name)
              /\ Cardinality(ListsNamed(session', name)) = 1
              /\ MembersOf(pre, name) = {} => MembersOf(session', name) = {}]_vars

\* C8's case: two different ids were added to a list and then removed, and
\* the list is there without memberships
C8_Witness ==
    /\ last.op = "remove_ids_from_list"
    /\ last.after = "add_ids_to_list"
    /\ Cardinality(Range(last.args[1])) = 2
    /\ Cardinality(MembersOf(pre, last.args[2])) = 2
    /\ Cardinality(ListsNamed(session, last.args[2])) = 1
    /\ MembersOf(session, last.args[2]) = {}

\* C9: from an empty store, whatever list and link calls were made, no two
\* List records have the same name, no two ListMembership records the same
\* (list, listing) pair and no two LinkedProducts records the same (amz id,
\* vnd id) pair.
C9_Unique ==
    (start.List = {} /\ start.ListMembership = {} /\ start.LinkedProducts = {}) =>
        /\ \A a, b \in session.List : a.name = b.name => a = b
        /\ \A a, b \in session.ListMembership :
             (a.list_id = b.list_id /\ a.listing_id = b.listing_id) => a = b
        /\ \A a, b \in session.LinkedProducts :
             (/\ a.amz_listing_id = b.amz_listing_id
              /\ a.vnd_listing_id = b.vnd_listing_id) => a = b

\* C9's case: the store holds a list with a membership and a link
C9_Witness ==
    /\ start = EmptySession
    /\ \E l \in session.List : \E m \in session.ListMembership : m.list_id = l.id
    /\ session.LinkedProducts # {}
    /\ session.nextId = 4

\* a call that returns without raising and leaves the session as it was
NoOp(s, outcomes) == \A o \in outcomes : o.s = s /\ o.raised = ""

\* C10: in every store, remove_ids_from_list for a list name that does not
\* exist, for no ids, or for ids that have no membership in the list,
\* unlink_products for a pair that has no link, and set_watch(listing, None)
\* and get_watch for a listing that has no watch return without raising and
\* leave the store as it was; get_watch returns None.
C10_AbsenceNoOp ==
    /\ \A ids \in IdSeqs, name \in ListNames :
         (\/ ListsNamed(session, name) = {}
          \/ ids = <<>>
          \/ \A m \in MembersOf(session, name) : m.listing_id \notin Range(ids))
         => NoOp(session, remove_ids_from_list(session, ids, name))
    /\ \A a \in ListingIds, v \in ListingIds :
         LinksOf(session, <<a, v>>) = {}
         => NoOp(session, unlink_products(session, a, v))
    /\ \A l \in ListingIds :
         KeyedWatches(session, l) = {}
         => /\ NoOp(session, set_watch(session, l, None))
            /\ NoOp(session, get_watch(session, l))
            /\ \A o \in get_watch(session, l) : o.ret = None

\* C10's case: a store with a list that has a member and lacks another, a
\* link for one pair and none for another, and a listing with no watch
C10_Witness ==
    /\ \E name \in ListNames, i \in ListingIds, j \in ListingIds :
         /\ \E m \in MembersOf(session, name) : m.listing_id = i
         /\ \A m \in MembersOf(session, name) : m.listing_id # j
         /\ NoOp(session, remove_ids_from_list(session, <<j>>, name))
    /\ \E a \in ListingIds, v \in ListingIds, w \in ListingIds :
         /\ LinksOf(session, <<a, v>>) # {}
         /\ LinksOf(session, <<a, w>>) = {}
         /\ NoOp(session, unlink_products(session, a, w))
    /\ \E l \in ListingIds : KeyedWatches(session, l) = {}

\* no two observations of the rows have the same timestamp
DistinctTimestamps(rows) ==
    \A a, b \in rows : a.timestamp = b.timestamp => a = b

\* the observation just before p in ascending timestamp order, if any
Predecessor(rows, p) ==
    {q \in rows : /\ q.timestamp < p.timestamp
                  /\ \A k \in rows : k.timestamp < p.timestamp
                                        => k.timestamp <= q.timestamp}

\* the observations whose salesrank fell by more than 0.3 a second since the
\* one just before
Flagged(rows) ==
    {p \in rows : \E q \in Predecessor(rows, p) :
        10 * (p.salesrank - q.salesrank) < -3 * (p.timestamp - q.timestamp)}

\* C11: for a listing whose observations have pairwise distinct timestamps,
\* sales_points returns without raising the (timestamp, salesrank) points of
\* exactly the observations p whose predecessor q in ascending timestamp
\* order has (p.salesrank - q.salesrank) / (p.timestamp - q.timestamp) below
\* -0.3 (a slope of exactly -0.3 is not below it), in ascending timestamp
\* order; the earliest observation is never among them.
C11_BatchSales ==
    (/\ last.op = "sales_points"
     /\ DistinctTimestamps(HistoryOf(session, last.args[1])))
    => LET rows  == HistoryOf(session, last.args[1])
           sales == last.ret[1]
       IN  /\ last.raised = ""
           /\ last.ret # None
           /\ session = pre
           /\ Len(sales) = Cardinality(Flagged(rows))
           /\ \A p \in Flagged(rows) : \E i \in DOMAIN sales :
                sales[i] = [timestamp |-> p.timestamp, salesrank |-> p.salesrank]
           /\ \A i, j \in DOMAIN sales :
                i < j => sales[i].timestamp < sales[j].timestamp
           /\ \A p \in rows : \A i \in DOMAIN sales :
                (\A k \in rows : p.timestamp <= k.timestamp)
                  => sales[i].timestamp # p.timestamp
           /\ \A p, q \in rows :
                (/\ Predecessor(rows, p) = {q}
                 /\ 10 * (p.salesrank - q.salesrank)
                      = -3 * (p.timestamp - q.timestamp))
                => \A i \in DOMAIN sales : sales[i].timestamp # p.timestamp

\* C11's case: sales_points swept a listing of three observations stored out
\* of timestamp order and returned the one that shows a sale
C11_Witness ==
    /\ last.op = "sales_points"
    /\ last.raised = ""
    /\ LET rows == HistoryOf(session, last.args[1])
       IN  /\ Cardinality(rows) = 3
           /\ DistinctTimestamps(rows)
           /\ \E a, b \in rows : a.id < b.id /\ a.timestamp > b.timestamp
           /\ Len(last.ret[1]) = 1
           /\ last.ret[1][1].timestamp = 1

\* the observations of obs's listing that have a smaller id
Earlier(s, obs) == {h \in HistoryOf(s, obs.amz_listing_id) : h.id < obs.id}

\* rise / run < -0.3, for a run that is not zero
BelowSaleSlope(rise, run) ==
    IF run > 0 THEN 10 * rise < -3 * run ELSE 10 * rise > -3 * run

C13_ZeroDelta ==
    (/\ last.op = "is_sale"
     /\ \E prior \in Earlier(session, last.args[1]) :
          /\ prior.timestamp = last.args[1].timestamp
          /\ \A k \in Earlier(session, last.args[1]) :
               k.timestamp <= prior.timestamp)
    => /\ last.ret = Some(FALSE)
       /\ last.raised = ""
       /\ last.events = <<"print">>

\* C13's case: obs and its predecessor share a timestamp, and the salesrank
\* fell between them
C13_Witness ==
    /\ last.op = "is_sale"
    /\ last.ret = Some(FALSE)
    /\ last.events = <<"print">>
    /\ \E prior \in Latest(Earlier(session, last.args[1])) :
         /\ prior.timestamp = last.args[1].timestamp
         /\ prior.salesrank > last.args[1].salesrank
    /\ Cardinality(Earlier(session, last.args[1])) = 2

\* the ids of the rows increase strictly with their timestamps
WellOrdered(rows) ==
    \A a, b \in rows : a.id < b.id => a.timestamp < b.timestamp

\* the (timestamp, salesrank) point of an observation
PointOf(h) == [timestamp |-> h.timestamp, salesrank |-> h.salesrank]

\* is_sale(obs) is true exactly when sales_points returns the point of obs
Agree(s, obs) ==
    \A i \in is_sale(s, obs) : \A b \in sales_points(s, obs.amz_listing_id) :
        /\ i.raised = "" /\ b.raised = ""
        /\ i.ret[1] = (PointOf(obs) \in Range(b.ret[1]))

\* C19: for a listing whose observations have ids that increase strictly
\* with their timestamps, once either detector has been called on it,
\* is_sale(obs) is true for exactly the observations obs of the listing
\* whose point sales_points returns.
C19_Agreement ==
    /\ (/\ last.op = "is_sale"
        /\ WellOrdered(HistoryOf(session, last.args[1].amz_listing_id)))
       => \A b \in sales_points(session, last.args[1].amz_listing_id) :
            /\ b.raised = ""
            /\ last.ret[1] = (PointOf(last.args[1]) \in Range(b.ret[1]))
    /\ (/\ last.op = "sales_points"
        /\ WellOrdered(HistoryOf(session, last.args[1])))
       => /\ last.raised = ""
          /\ \A obs \in HistoryOf(session, last.args[1]) :
               \A i \in is_sale(session, obs) :
                 /\ i.raised = ""
                 /\ i.ret[1] = (PointOf(obs) \in Range(last.ret[1]))

\* C19's case: a listing of three observations stored in timestamp order,
\* of which sales_points returned one, and is_sale agrees on all three
C19_Witness ==
    /\ last.op = "sales_points"
    /\ Cardinality(HistoryOf(session, last.args[1])) = 3
    /\ WellOrdered(HistoryOf(session, last.args[1]))
    /\ Len(last.ret[1]) = 1
    /\ \A obs \in HistoryOf(session, last.args[1]) : Agree(session, obs)

\* C19, the other half: a listing whose ids are not in timestamp order (all
\* timestamps distinct), on an observation of which the detectors disagree
C19_MayDisagree ==
    /\ last.op = "is_sale"
    /\ DistinctTimestamps(HistoryOf(session, last.args[1].amz_listing_id))
    /\ ~WellOrdered(HistoryOf(session, last.args[1].amz_listing_id))
    /\ ~Agree(session, last.args[1])

\* C20: when two observations of a listing share a timestamp, sales_points
\* returns nothing and raises ZeroDivisionError, whereas is_sale on the
\* later stored of such a pair, the other being its predecessor, returns
\* false and does not raise.
C20_OnlyIsSaleRecovers ==
    (/\ last.op = "sales_points"
     /\ ~DistinctTimestamps(HistoryOf(session, last.args[1])))
    => /\ last.raised = "ZeroDivisionError"
       /\ last.ret = None
       /\ \A a, b \in HistoryOf(session, last.args[1]) :
            (/\ a.timestamp = b.timestamp
             /\ a \in Latest(Earlier(session, b)))
            => \A i \in is_sale(session, b) :
                 i.ret = Some(FALSE) /\ i.raised = ""

\* C20's case: sales_points raised on a listing of three observations, the
\* last two stored sharing a timestamp with a fall in salesrank
C20_Witness ==
    /\ last.op = "sales_points"
    /\ last.raised = "ZeroDivisionError"
    /\ Cardinality(HistoryOf(session, last.args[1])) = 3
    /\ \E a, b \in HistoryOf(session, last.args[1]) :
         /\ a.timestamp = b.timestamp
         /\ a.salesrank > b.salesrank
         /\ a \in Latest(Earlier(session, b))
         /\ Cardinality(Earlier(session, b)) = 2
         /\ \A i \in is_sale(session, b) : i.ret = Some(FALSE) /\ i.raised = ""

\* a caller whose get_or_create call has returned and whose session flushed
Returned(c) == callers.of[c].pc = "idle" /\ callers.of[c].args # <<>>

\* C14: a caller whose call went through holds a record of the store that
\* matches its constraints.  When two callers with identical constraints both
\* read no match and both went through, each staged and flushed a record of
\* its own, so two records match the constraints, and the store has no
\* uniqueness constraint.  Under a uniqueness constraint no two records
\* match; a caller fails only there, with IntegrityError on the flush of a
\* record it staged after reading no match while a matching record is in
\* the store, and get_or_create does not read again.
C14_Race ==
    /\ \A c \in Callers :
         Returned(c) =>
           /\ callers.of[c].ret # None
           /\ callers.of[c].ret[1] \in session[callers.of[c].args[1]]
           /\ Matches(callers.of[c].ret[1], callers.of[c].args[2])
    /\ \A c, d \in Callers :
         (/\ c # d
          /\ Returned(c) /\ Returned(d)
          /\ callers.of[c].args = callers.of[d].args
          /\ callers.of[c].seen = None /\ callers.of[d].seen = None)
         => /\ callers.of[c].ret # callers.of[d].ret
            /\ Cardinality(Matching(session, callers.of[c].args[1],
                                    callers.of[c].args[2])) >= 2
            /\ ~callers.unique
    /\ callers.unique =>
         \A a \in RaceArgs : Cardinality(Matching(session, a[1], a[2])) <= 1
    /\ \A c \in Callers :
         callers.of[c].pc = "failed" =>
           /\ callers.unique
           /\ callers.of[c].raised = "IntegrityError"
           /\ callers.of[c].seen = None
           /\ callers.of[c].ret = None
           /\ Matching(session, callers.of[c].args[1], callers.of[c].args[2]) # {}

\* C14's case: both callers read no match for the same name, both staged and
\* flushed, and the store holds two Lists of that name
C14_Witness ==
    /\ ~callers.unique
    /\ \A c \in Callers : Returned(c) /\ callers.of[c].seen = None
    /\ callers.of["c1"].args = callers.of["c2"].args
    /\ Cardinality(Matching(session, "List", callers.of["c1"].args[2])) = 2

\* C14, under a uniqueness constraint: both callers read no match for the
\* same name, one went through and the store rejected the other
C14_Rejected ==
    /\ callers.unique
    /\ callers.of["c1"].args = callers.of["c2"].args
    /\ \A c \in Callers : callers.of[c].seen = None /\ callers.of[c].args # <<>>
    /\ \E c, d \in Callers : Returned(c) /\ callers.of[d].pc = "failed"

\* C15: get_watch(listing) returns an Operation only if it is of the
\* listing, its kind is UpdateAmazonListing and its params have the key
\* repeat, and returns None when the listing has no such operation.
C15_KeyedLookup ==
    last.op = "get_watch" =>
        /\ last.ret # None => last.ret[1] \in KeyedWatches(session, last.args[1])
        /\ KeyedWatches(session, last.args[1]) = {} => last.ret = None

\* C16: a link call whose link has no confidence (a new link, or one stored
\* unscored) makes two calls in this order: link_products_ids a flush and
\* then the scorer, link_products the attachment of amz and vnd and then the
\* scorer, with no flush.  A link call whose link has a confidence neither
\* flushes, attaches nor scores, and leaves the store as it was.
C16_FlushAsymmetry ==
    last.op \in LinkOps =>
        LET before == LinksOf(pre, last.args)
        IN  IF \A l \in before : l.confidence = None
              THEN /\ last.op = "link_products_ids"
                        => last.events = <<"flush", "build_confidence">>
                   /\ last.op = "link_products"
                        => last.events = <<"attach", "build_confidence">>
                   /\ last.ret[1].confidence # None
              ELSE /\ last.events = <<>>
                   /\ session = pre
                   /\ last.ret[1] \in before

\* C16's case: link_products found a link stored without a confidence,
\* attached the listings and scored it, with no flush
C16_Witness ==
    /\ last.op = "link_products"
    /\ \E l \in LinksOf(pre, last.args) :
         /\ l.confidence = None
         /\ last.ret[1].id = l.id
    /\ last.events = <<"attach", "build_confidence">>
    /\ last.ret[1].confidence # None

\* C17: after add_ids_to_list(ids, L) with ids not empty, the list named L
\* has is_amazon true when the store holds a listing of id ids[0] that is
\* an AmazonListing and false otherwise (another kind of listing, or no
\* listing of that id), whatever the other ids, the members the list had
\* and the is_amazon it had.
C17_IsAmazonFromFirst ==
    (last.op = "add_ids_to_list" /\ last.args[1] # <<>>) =>
        /\ last.raised = ""
        /\ \E L \in session.List :
             /\ ListsNamed(session, last.args[2]) = {L}
             /\ L.is_amazon =
                  Some(\E l \in session.Listing :
                         l.id = last.args[1][1] /\ l.type = "AmazonListing")

\* C17's case: a list flagged is_amazon with an Amazon member is added two
\* ids, the first of which is no listing of the store and the second an
\* AmazonListing, and the flag is false
C17_Witness ==
    /\ last.op = "add_ids_to_list"
    /\ Len(last.args[1]) = 2
    /\ \A l \in session.Listing : l.id # last.args[1][1]
    /\ \E l \in session.Listing :
         l.id = last.args[1][2] /\ l.type = "AmazonListing"
    /\ \E L \in ListsNamed(pre, last.args[2]) : L.is_amazon = Some(TRUE)
    /\ \E m \in MembersOf(pre, last.args[2]) : m.listing_id = last.args[1][2]
    /\ \E L \in ListsNamed(session, last.args[2]) : L.is_amazon = Some(FALSE)

\* C18: add_ids_to_list with no ids raises IndexError; a list of that name
\* that was not in the store is left staged in it, with no membership and
\* no is_amazon, and a list that was there is left as it was; no membership
\* is added.  remove_ids_from_list with no ids returns without raising and
\* changes nothing.
C18_EmptyIds ==
    /\ (last.op = "add_ids_to_list" /\ last.args[1] = <<>>) =>
         /\ last.raised = "IndexError"
         /\ session.ListMembership = pre.ListMembership
         /\ IF ListsNamed(pre, last.args[2]) = {}
              THEN \E L \in session.List :
                     /\ L \notin pre.List
                     /\ session.List = pre.List \cup {L}
                     /\ L.name = Some(last.args[2])
                     /\ L.is_amazon = None
                     /\ MembersOf(session, last.args[2]) = {}
              ELSE session = pre
    /\ (last.op = "remove_ids_from_list" /\ last.args[1] = <<>>) =>
         /\ last.raised = ""
         /\ session = pre

\* C18's case: add_ids_to_list with no ids for a name the store did not
\* have, in a store that has another list with a member: it raised and
\* left the new list behind
C18_Witness ==
    /\ last.op = "add_ids_to_list"
    /\ last.args[1] = <<>>
    /\ last.raised = "IndexError"
    /\ ListsNamed(pre, last.args[2]) = {}
    /\ pre.ListMembership # {}
    /\ \E L \in ListsNamed(session, last.args[2]) : L.is_amazon = None

====
